---- MODULE Spec2Model ----
(***************************************************************************)
(* A model of the music library organizer (src/main.py): the text helpers  *)
(* (decode_unicode_escapes, sanitize, get_main_artist), the metadata       *)
(* parser's result, the scan, the planning loop, the confirmation, the     *)
(* apply loop and the prune pass of main().                                *)
(*                                                                         *)
(* Text is a sequence of Unicode code points (naturals); a path is the     *)
(* sequence of its segments below MUSIC_ROOT, so << >> is MUSIC_ROOT.      *)
(***************************************************************************)
EXTENDS Integers, Sequences, FiniteSets, TLC

VARIABLES
    dirs,       \* the directories below MUSIC_ROOT (a set of paths), root included
    files,      \* the regular files: path -> content identity
    meta,       \* content identity of an audio file -> what mdls answers for it
    pc,         \* where main() stands
    scanned,    \* files, the list find_music_files() returned
    idx,        \* the planning loop's position in scanned (1-based)
    moves,      \* the plan: a sequence of [src, dst]
    skipped,    \* the skip counter
    response,   \* the operator's normalised answer, Null before the prompt
    k,          \* the apply loop's position in moves (1-based)
    removed,    \* what remove_empty_folders returned, NoNumber before it ran
    run,        \* which invocation of the program this is
    dirs0,      \* history: the directories when the first run started
    files0,     \* history: the files when the first run started
    log,        \* history: what each mutation of this run did
    name,       \* the text handed to sanitize (text specification)
    outs        \* history: the results of the successive sanitize calls

vars == << dirs, files, meta, pc, scanned, idx, moves, skipped, response, k,
           removed, run, dirs0, files0, log, name, outs >>

libVars == << dirs, files, meta, pc, scanned, idx, moves, skipped, response, k,
              removed, run, dirs0, files0, log >>

\* None where a text is expected, and None where a number is expected.
Null == << -1 >>

NoNumber == -1

(***************************************************************************)
(* Text                                                                    *)
(***************************************************************************)

\* str.strip() and the regular expressions' \s: Unicode white space.
SpaceChars == {9, 10, 11, 12, 13, 28, 29, 30, 31, 32, 133, 160}

IsSpace(c) == c \in SpaceChars

\* re.IGNORECASE / str.lower() on the letters the model uses.
Lower(c) == IF c \in 65..90 THEN c + 32 ELSE c

LowerStr(s) == [i \in 1..Len(s) |-> Lower(s[i])]

IsHex(c) == c \in (48..57) \cup (65..70) \cup (97..102)

HexVal(c) == IF c \in 48..57 THEN c - 48
             ELSE IF c \in 65..70 THEN c - 55 ELSE c - 87

RECURSIVE Flatten(_)
Flatten(ss) == IF Len(ss) = 0 THEN << >> ELSE Head(ss) \o Flatten(Tail(ss))

\* One re.sub(r'\\M([0-9a-fA-F]{4})', replace_u, s) pass for the marker letter M:
\* leftmost, non-overlapping matches; the replacement is not scanned again.
RECURSIVE SubEscapes(_, _)
SubEscapes(s, marker) ==
    IF Len(s) = 0 THEN << >>
    ELSE IF /\ Len(s) >= 6
            /\ s[1] = 92
            /\ s[2] = marker
            /\ \A i \in 3..6 : IsHex(s[i])
         THEN << HexVal(s[3]) * 4096 + HexVal(s[4]) * 256
                 + HexVal(s[5]) * 16 + HexVal(s[6]) >>
              \o SubEscapes(SubSeq(s, 7, Len(s)), marker)
         ELSE << s[1] >> \o SubEscapes(Tail(s), marker)

\* The \U pass, then the \u pass.
decode_unicode_escapes(s) == SubEscapes(SubEscapes(s, 85), 117)

\* str.replace(c, r) for a one-character c.
RECURSIVE Replace(_, _, _)
Replace(s, c, r) ==
    IF Len(s) = 0 THEN << >>
    ELSE (IF s[1] = c THEN r ELSE << s[1] >>) \o Replace(Tail(s), c, r)

\* ['/', '\\', ':', '*', '?', '"', '<', '>', '|']
UnsafeChars == << 47, 92, 58, 42, 63, 34, 60, 62, 124 >>

\* '/\\:|' : the characters replaced by '-' instead of removed.
DashedChars == {47, 92, 58, 124}

RECURSIVE ReplaceUnsafe(_, _)
ReplaceUnsafe(s, i) ==
    IF i > Len(UnsafeChars) THEN s
    ELSE ReplaceUnsafe(
            Replace(s, UnsafeChars[i],
                    IF UnsafeChars[i] \in DashedChars THEN << 45 >> ELSE << >>),
            i + 1)

\* str.lstrip / str.rstrip of the characters in the set chars.
RECURSIVE LStrip(_, _)
LStrip(s, chars) ==
    IF Len(s) > 0 /\ s[1] \in chars THEN LStrip(Tail(s), chars) ELSE s

RECURSIVE RStrip(_, _)
RStrip(s, chars) ==
    IF Len(s) > 0 /\ s[Len(s)] \in chars
    THEN RStrip(SubSeq(s, 1, Len(s) - 1), chars) ELSE s

\* str.strip()
StripSpace(s) == RStrip(LStrip(s, SpaceChars), SpaceChars)

\* str.strip('.')
StripDots(s) == RStrip(LStrip(s, {46}), {46})

\* name.strip().strip('.')
FinalStrip(s) == StripDots(StripSpace(s))

sanitize(s) == FinalStrip(ReplaceUnsafe(decode_unicode_escapes(s), 1))

(***************************************************************************)
(* get_main_artist                                                         *)
(***************************************************************************)

\* The patterns, in the order of the list: \s+ft\.?\s+  \s+feat\.?\s+
\* \s+featuring\s+  \s+with\s+  \s+x\s+  then  \s*&\s*  and  \s*,\s* .
\* A word pattern is \s+ word (\.)? \s+ ; a char pattern is \s* char \s* .
patterns ==
    << [kind |-> "word", word |-> << 102, 116 >>, dot |-> TRUE],
       [kind |-> "word", word |-> << 102, 101, 97, 116 >>, dot |-> TRUE],
       [kind |-> "word",
        word |-> << 102, 101, 97, 116, 117, 114, 105, 110, 103 >>, dot |-> FALSE],
       [kind |-> "word", word |-> << 119, 105, 116, 104 >>, dot |-> FALSE],
       [kind |-> "word", word |-> << 120 >>, dot |-> FALSE],
       [kind |-> "char", char |-> 38],
       [kind |-> "char", char |-> 44] >>

\* A match of the pattern starts at position i of s (re.IGNORECASE).
MatchesAt(s, i, pat) ==
    IF pat.kind = "word"
    THEN /\ IsSpace(s[i])
         /\ \E j \in (i + 1)..Len(s) :
              LET e == j + Len(pat.word) IN
              /\ \A h \in i..(j - 1) : IsSpace(s[h])
              /\ e - 1 <= Len(s)
              /\ LowerStr(SubSeq(s, j, e - 1)) = pat.word
              /\ \/ e <= Len(s) /\ IsSpace(s[e])
                 \/ /\ pat.dot
                    /\ e + 1 <= Len(s)
                    /\ s[e] = 46
                    /\ IsSpace(s[e + 1])
    ELSE \E j \in i..Len(s) :
              /\ \A h \in i..(j - 1) : IsSpace(s[h])
              /\ s[j] = pat.char

\* re.split(pattern, s)[0]: what precedes the leftmost match, s without one.
FirstPart(s, pat) ==
    LET starts == { i \in 1..Len(s) : MatchesAt(s, i, pat) } IN
    IF starts = {} THEN s
    ELSE SubSeq(s, 1, (CHOOSE i \in starts : \A j \in starts : i <= j) - 1)

RECURSIVE ApplyPatterns(_, _)
ApplyPatterns(s, i) ==
    IF i > Len(patterns) THEN s
    ELSE ApplyPatterns(FirstPart(s, patterns[i]), i + 1)

get_main_artist(artist) == StripSpace(ApplyPatterns(artist, 1))

(***************************************************************************)
(* Paths and file names                                                    *)
(***************************************************************************)

MUSIC_ROOT == << >>

\* {".mp3", ".flac"}
SUPPORTED_EXTENSIONS == { << 46, 109, 112, 51 >>, << 46, 102, 108, 97, 99 >> }

\* {".venv", "__pycache__", ".git"}
IGNORE_DIRS ==
    { << 46, 118, 101, 110, 118 >>,
      << 95, 95, 112, 121, 99, 97, 99, 104, 101, 95, 95 >>,
      << 46, 103, 105, 116 >> }

\* pathlib's p / seg for a segment without a separator: an empty segment adds
\* nothing.
Join(p, seg) == IF seg = << >> THEN p ELSE Append(p, seg)

Parent(p) == SubSeq(p, 1, Len(p) - 1)

BaseName(p) == p[Len(p)]

IsPrefix(p, q) == Len(p) <= Len(q) /\ SubSeq(q, 1, Len(p)) = p

\* q lies strictly below the directory p.
Below(p, q) == Len(p) < Len(q) /\ IsPrefix(p, q)

LastDot(nm) ==
    LET ds == { i \in 1..Len(nm) : nm[i] = 46 } IN
    IF ds = {} THEN 0 ELSE CHOOSE i \in ds : \A j \in ds : j <= i

\* PurePath.suffix: from the last dot, unless the name starts or ends with it.
Suffix(nm) ==
    LET i == LastDot(nm) IN
    IF 1 < i /\ i < Len(nm) THEN SubSeq(nm, i, Len(nm)) ELSE << >>

\* os.path.splitext(f)[1]: from the last dot, unless only dots precede it.
SplitExt(nm) ==
    LET i == LastDot(nm) IN
    IF i > 0 /\ (\E j \in 1..(i - 1) : nm[j] # 46)
    THEN SubSeq(nm, i, Len(nm)) ELSE << >>

RECURSIVE Decimal(_)
Decimal(n) ==
    IF n < 10 THEN << 48 + n >> ELSE Append(Decimal(n \div 10), 48 + (n % 10))

\* A formatting without the zero padding.
Format02dUnpadded(n) == Decimal(n)

\* format(n, "02d")
Format02d(n) == IF n < 10 THEN << 48 >> \o Decimal(n) ELSE Decimal(n)

(***************************************************************************)
(* get_metadata                                                            *)
(*                                                                         *)
(* What mdls prints for a file is a record of the four lines the parser    *)
(* reads: failed (the subprocess raised or timed out), authors (kind       *)
(* "null" for "(null)" or no list, else the list's first line: "quoted" or *)
(* "plain", and its text), album and title (Null, or the text between the  *)
(* quotes), track (NoNumber, or the digits' value).                        *)
(***************************************************************************)

NoData == [artist |-> Null, album |-> Null, title |-> Null, track |-> NoNumber]

\* The authors branch: "(.+)" first, else the line without a trailing comma.
ParseAuthors(a) ==
    IF a.kind = "null" THEN Null
    ELSE IF a.kind = "quoted" /\ a.text # << >> THEN a.text
    ELSE LET line == IF a.kind = "quoted" THEN << 34, 34 >> ELSE a.text
             artist == StripSpace(RStrip(line, {44}))
         IN  IF artist # << >> /\ artist # << 41 >> THEN artist ELSE Null

\* =\s*"(.+)" : the group needs one character at least.
ParseQuoted(v) == IF v = Null \/ v = << >> THEN Null ELSE v

get_metadata(r) ==
    IF r.failed THEN NoData
    ELSE [artist |-> ParseAuthors(r.authors),
          album  |-> ParseQuoted(r.album),
          title  |-> ParseQuoted(r.title),
          track  |-> r.track]

\* Python truth of an optional text: None and "" are false.
Truthy(v) == v # Null /\ v # << >>

\* Python truth of an optional number: None and 0 are false.
TruthyNumber(n) == n # NoNumber /\ n # 0

\* A gate that looks at the artist alone.
IncompleteArtistOnly(m) == ~Truthy(m.artist)

\* if not (meta["artist"] and meta["album"] and meta["title"])
Incomplete(m) == ~(Truthy(m.artist) /\ Truthy(m.album) /\ Truthy(m.title))

\* if meta["track"]
HasTrack(m) == TruthyNumber(m.track)

\* filename = f"{meta['track']:02d} - {title}{ext}" or f"{title}{ext}"
FileName(m, title, ext) ==
    IF HasTrack(m)
    THEN Format02d(m.track) \o << 32, 45, 32 >> \o title \o ext
    ELSE title \o ext

\* target = MUSIC_ROOT / artist / album / filename, for the source path f
Target(f, m) ==
    LET artist == sanitize(get_main_artist(m.artist))
        album  == sanitize(m.album)
        title  == sanitize(m.title)
        ext    == Suffix(BaseName(f))
    IN  Join(Join(Join(MUSIC_ROOT, artist), album), FileName(m, title, ext))

(***************************************************************************)
(* The file system below MUSIC_ROOT                                        *)
(***************************************************************************)

Exists(p, D, F) == p \in D \/ p \in DOMAIN F

Prefixes(p) == { SubSeq(p, 1, n) : n \in 0..Len(p) }

\* item.is_file() and item.suffix.lower() in SUPPORTED_EXTENSIONS
IsMusic(p) == LowerStr(Suffix(BaseName(p))) \in SUPPORTED_EXTENSIONS

\* An emptiness test that looks at the directory's own entries only.
HasMusicDirect(d, F) == \E p \in DOMAIN F : Parent(p) = d /\ IsMusic(p)

\* for item in path.rglob('*'): has_music
HasMusic(d, F) == \E p \in DOMAIN F : Below(d, p) /\ IsMusic(p)

\* shutil.rmtree(path): the directory and everything below it.
RmTreeDirs(d, D) == { e \in D : ~IsPrefix(d, e) }

RmTreeFiles(d, F) == [p \in { q \in DOMAIN F : ~Below(d, q) } |-> F[p]]

\* The walk of find_music_files reaches a directory unless one of its
\* segments is in IGNORE_DIRS (dirnames[:] = ...).
Walked(d) == \A i \in 1..Len(d) : d[i] \notin IGNORE_DIRS

\* os.path.splitext(f)[1].lower() in SUPPORTED_EXTENSIONS, in a walked directory
Found(D, F) ==
    { p \in DOMAIN F :
        /\ Walked(Parent(p))
        /\ LowerStr(SplitExt(BaseName(p))) \in SUPPORTED_EXTENSIONS }

\* The orders os.walk (top-down) can list the found files in: a directory's
\* own files first, then its subdirectories one whole subtree after another;
\* the order of the entries of one directory is the file system's.
WalkOrder(o) ==
    /\ \A a, b \in 1..Len(o) :
         a < b => ~Below(Parent(o[b]), Parent(o[a]))
    /\ \A a, b, c \in 1..Len(o) :
         (a < b /\ b < c) =>
            \A d \in Prefixes(Parent(o[a])) :
                IsPrefix(d, Parent(o[c])) => IsPrefix(d, Parent(o[b]))

find_music_files(D, F) ==
    LET found == Found(D, F)
        n == Cardinality(found)
    IN  { o \in [1..n -> found] :
            /\ \A a, b \in 1..n : a # b => o[a] # o[b]
            /\ WalkOrder(o) }

\* remove_empty_folders: the directories in bottom-up order (a directory after
\* everything below it; the order between unrelated directories changes no
\* result, their subtrees being disjoint), root skipped, a directory without
\* music removed with its contents unless rmtree raises OSError (the
\* directories in fail; the failing call is taken to remove nothing).
RECURSIVE WalkBottomUp(_, _, _, _, _)
WalkBottomUp(pending, D, F, fail, n) ==
    IF pending = {} THEN [dirs |-> D, files |-> F, removed |-> n]
    ELSE LET d == CHOOSE x \in pending : \A e \in pending : ~Below(x, e)
             rest == pending \ {d}
         IN  IF d = MUSIC_ROOT THEN WalkBottomUp(rest, D, F, fail, n)
             ELSE IF HasMusic(d, F) THEN WalkBottomUp(rest, D, F, fail, n)
             ELSE IF d \in fail THEN WalkBottomUp(rest, D, F, fail, n)
             ELSE WalkBottomUp(rest, RmTreeDirs(d, D), RmTreeFiles(d, F),
                               fail, n + 1)

remove_empty_folders(D, F, fail) == WalkBottomUp(D, D, F, fail, 0)

(***************************************************************************)
(* main()                                                                  *)
(***************************************************************************)

\* What the operator may type at the prompt: "yes", " YES ", "no", "y", "".
ConfirmInputs ==
    { << 121, 101, 115 >>, << 32, 89, 69, 83, 32 >>, << 110, 111 >>,
      << 121 >>, << >> }

Yes == << 121, 101, 115 >>

\* input(...).strip().lower()
Normalise(inp) == LowerStr(StripSpace(inp))

\* An empty plan that ends the program without the prune pass.
AfterPlanNoPrune(mvs) == IF mvs = << >> THEN "done" ELSE "confirm"

\* Where main() goes after the planning loop: if not moves.
AfterPlan(mvs) == IF mvs = << >> THEN "prune" ELSE "confirm"

\* Where main() goes after the prompt: if response == "yes" ... else return.
AfterConfirm(r) == IF r = Yes THEN "apply" ELSE "cancelled"

\* for i, f in enumerate(files): one iteration that reaches moves.append.
Planned(f, m, D, F) ==
    /\ ~Incomplete(m)
    /\ f # Target(f, m)
    /\ ~Exists(Target(f, m), D, F)

\* files = find_music_files()
Scan ==
    /\ pc = "scan"
    /\ scanned' \in find_music_files(dirs, files)
    /\ idx' = 1
    /\ moves' = << >>
    /\ skipped' = 0
    /\ pc' = "plan"
    /\ UNCHANGED << dirs, files, meta, response, k, removed, run, dirs0,
                    files0, log, name, outs >>

\* One iteration of the planning loop.
PlanStep ==
    /\ pc = "plan"
    /\ idx <= Len(scanned)
    /\ LET f == scanned[idx]
           m == get_metadata(meta[files[f]])
       IN  /\ skipped' = IF Incomplete(m) THEN skipped + 1 ELSE skipped
           /\ moves' = IF Planned(f, m, dirs, files)
                       THEN Append(moves, [src |-> f, dst |-> Target(f, m)])
                       ELSE moves
    /\ idx' = idx + 1
    /\ UNCHANGED << dirs, files, meta, pc, scanned, response, k, removed, run,
                    dirs0, files0, log, name, outs >>

\* The planning loop is over: the counts are printed, and either there is
\* nothing to move or the preview and the prompt follow.
PlanEnd ==
    /\ pc = "plan"
    /\ idx > Len(scanned)
    /\ pc' = AfterPlan(moves)
    /\ UNCHANGED << dirs, files, meta, scanned, idx, moves, skipped, response,
                    k, removed, run, dirs0, files0, log, name, outs >>

\* response = input(...).strip().lower()
Confirm ==
    /\ pc = "confirm"
    /\ \E inp \in ConfirmInputs :
         /\ response' = Normalise(inp)
         /\ pc' = AfterConfirm(Normalise(inp))
    /\ k' = 1
    /\ UNCHANGED << dirs, files, meta, scanned, idx, moves, skipped, removed,
                    run, dirs0, files0, log, name, outs >>

\* dst.parent.mkdir(parents=True, exist_ok=True) raises when a file stands
\* where a directory of the chain is needed.
MkdirFails(dst, F) ==
    \E d \in Prefixes(Parent(dst)) : d \in DOMAIN F

\* shutil.move(src, dst): into dst when dst is a directory, else onto dst.
RealDst(src, dst, D) == IF dst \in D THEN Append(dst, BaseName(src)) ELSE dst

\* shutil.move raises when dst is a directory that already has an entry of
\* the source's name.
MoveFails(src, dst, D, F) == dst \in D /\ Exists(RealDst(src, dst, D), D, F)

\* os.rename(src, real_dst): the entry at real_dst, if any, is replaced.
Rename(src, real, F) ==
    [p \in (DOMAIN F \ {src}) \cup {real} |-> IF p = real THEN F[src] ELSE F[p]]

\* One iteration of the apply loop; an exception ends the program.
ApplyStep ==
    /\ pc = "apply"
    /\ k <= Len(moves)
    /\ LET src == moves[k].src
           dst == moves[k].dst
           made == dirs \cup Prefixes(Parent(dst))
           real == RealDst(src, dst, made)
       IN  IF MkdirFails(dst, files)
           THEN /\ pc' = "crashed"
                /\ UNCHANGED << dirs, files, k, log >>
           ELSE IF MoveFails(src, dst, made, files)
           THEN /\ pc' = "crashed"
                /\ dirs' = made
                /\ UNCHANGED << files, k, log >>
           ELSE /\ dirs' = made
                /\ files' = Rename(src, real, files)
                /\ log' = Append(log, [op |-> "move", run |-> run,
                                       answer |-> response,
                                       src |-> src, dst |-> real,
                                       onto |-> Exists(real, made, files)])
                /\ k' = k + 1
                /\ pc' = pc
    /\ UNCHANGED << meta, scanned, idx, moves, skipped, response, removed,
                    run, dirs0, files0, name, outs >>

\* The apply loop is over: "Moved n files."
ApplyEnd ==
    /\ pc = "apply"
    /\ k > Len(moves)
    /\ pc' = "prune"
    /\ UNCHANGED << dirs, files, meta, scanned, idx, moves, skipped, response,
                    k, removed, run, dirs0, files0, log, name, outs >>

\* removed = remove_empty_folders(MUSIC_ROOT), then the report.
Prune ==
    /\ pc = "prune"
    /\ \E fail \in SUBSET { d \in dirs \ {MUSIC_ROOT} : ~HasMusic(d, files) } :
         LET r == remove_empty_folders(dirs, files, fail) IN
         /\ dirs' = r.dirs
         /\ files' = r.files
         /\ removed' = r.removed
         /\ log' = Append(log, [op |-> "prune", run |-> run,
                                answer |-> response,
                                before |-> [dirs |-> dirs, files |-> files],
                                fail |-> fail, removed |-> r.removed])
    /\ pc' = "done"
    /\ UNCHANGED << meta, scanned, idx, moves, skipped, response, k, run,
                    dirs0, files0, name, outs >>

\* The program is started again on the tree the first run left.
Rerun ==
    /\ pc = "done"
    /\ run = "first"
    /\ run' = "second"
    /\ pc' = "scan"
    /\ scanned' = << >>
    /\ idx' = 1
    /\ moves' = << >>
    /\ skipped' = 0
    /\ response' = Null
    /\ k' = 1
    /\ removed' = NoNumber
    /\ UNCHANGED << dirs, files, meta, dirs0, files0, log, name, outs >>

Next ==
    \/ Scan
    \/ PlanStep
    \/ PlanEnd
    \/ Confirm
    \/ ApplyStep
    \/ ApplyEnd
    \/ Prune
    \/ Rerun

(***************************************************************************)
(* The libraries the runs start from                                       *)
(***************************************************************************)

NFiles == 2

\* The places an audio file may start at: in/x.mp3, A/L/T.mp3, .git/x.flac,
\* z.MP3 and in/d/y.mp3.
StartPaths ==
    << << << 105, 110 >>, << 120, 46, 109, 112, 51 >> >>,
       << << 65 >>, << 76 >>, << 84, 46, 109, 112, 51 >> >>,
       << << 46, 103, 105, 116 >>, << 120, 46, 102, 108, 97, 99 >> >>,
       << << 122, 46, 77, 80, 51 >> >>,
       << << 105, 110 >>, << 100 >>, << 121, 46, 109, 112, 51 >> >> >>

Answer(kind, artist, album, title, track) ==
    [failed |-> FALSE, authors |-> [kind |-> kind, text |-> artist],
     album |-> album, title |-> title, track |-> track]

\* What mdls may answer for a file:
\*   "A" / "L" / "T", no track            -> A/L/T.ext
\*   A ft. B, (unquoted) / "L" / "T"      -> A/L/T.ext as well
\*   (null) / "L" / "T" / 3               -> incomplete
\*   "B" / "L" / "?" / 7                  -> B/L/07 - .ext
\*   "A" / no album / "T"                 -> incomplete
\*   the query failed                     -> incomplete
Answers ==
    { Answer("quoted", << 65 >>, << 76 >>, << 84 >>, NoNumber),
      Answer("plain", << 65, 32, 102, 116, 46, 32, 66, 44 >>, << 76 >>, << 84 >>, NoNumber),
      Answer("null", << >>, << 76 >>, << 84 >>, 3),
      Answer("quoted", << 66 >>, << 76 >>, << 63 >>, 7),
      Answer("quoted", << 65 >>, Null, << 84 >>, NoNumber),
      [failed |-> TRUE, authors |-> [kind |-> "null", text |-> << >>],
       album |-> Null, title |-> Null, track |-> NoNumber] }

\* What else lies below the root, as [dirs, files]: nothing; art/c.jpg and
\* .git/c.jpg; a file B at the root and the empty directories e and e/f.
Clutter ==
    { [dirs |-> {}, files |-> {}],
      [dirs |-> {}, files |-> { << << 97, 114, 116 >>, << 99, 46, 106, 112, 103 >> >>, << << 46, 103, 105, 116 >>, << 99, 46, 106, 112, 103 >> >> }],
      [dirs |-> { << << 101 >>, << 102 >> >> }, files |-> { << << 66 >> >> }] }

\* The tree holding the audio files at the paths at (content i at at[i]) and
\* the clutter c; every file's directory chain exists.
Tree(at, c) ==
    LET audio == { at[i] : i \in DOMAIN at }
        all == audio \cup c.files
    IN  [dirs |-> UNION { Prefixes(Parent(p)) : p \in all }
                  \cup UNION { Prefixes(d) : d \in c.dirs } \cup {MUSIC_ROOT},
         files |-> [p \in all |->
                       IF p \in audio THEN CHOOSE i \in DOMAIN at : at[i] = p
                       ELSE 0]]

textIdle == name = << >> /\ outs = << >>

InitRun ==
    /\ pc = "scan"
    /\ scanned = << >> /\ idx = 1 /\ moves = << >> /\ skipped = 0
    /\ response = Null /\ k = 1 /\ removed = NoNumber /\ run = "first"
    /\ log = << >>
    /\ dirs0 = dirs /\ files0 = files
    /\ textIdle

Init ==
    /\ \E slots \in [1..NFiles -> 1..Len(StartPaths)] :
       \E c \in Clutter :
         /\ \A i, j \in 1..NFiles : i < j => slots[i] < slots[j]
         /\ LET tree == Tree([i \in 1..NFiles |-> StartPaths[slots[i]]], c) IN
            /\ dirs = tree.dirs
            /\ files = tree.files
    /\ meta \in [1..NFiles -> Answers]
    /\ InitRun

Spec == Init /\ [][Next]_vars

(***************************************************************************)
(* One file with every metadata answer of a bounded range                  *)
(***************************************************************************)

MaxTrack == 11

\* "A", ", B", "A & B", "a FEAT. b", "A x B", "."
ArtistTexts ==
    { << 65 >>, << 44, 32, 66 >>, << 65, 32, 38, 32, 66 >>, << 97, 32, 70, 69, 65, 84, 46, 32, 98 >>, << 65, 32, 120, 32, 66 >>, << 46 >> }

\* "L", "*", no album
AlbumTexts == { << 76 >>, << 42 >>, Null }

\* "T", "?", " .T. ", no title
TitleTexts == { << 84 >>, << 63 >>, << 32, 46, 84, 46, 32 >>, Null }

TrackValues == {NoNumber, 100} \cup 0..MaxTrack

InitOne ==
    /\ \E p \in { StartPaths[1], StartPaths[2] } :
         LET tree == Tree(<< p >>, [dirs |-> {}, files |-> {}]) IN
         /\ dirs = tree.dirs
         /\ files = tree.files
    /\ \E kind \in {"quoted", "plain"} :
       \E a \in ArtistTexts, al \in AlbumTexts, ti \in TitleTexts,
          n \in TrackValues :
         meta = << Answer(kind, a, al, ti, n) >>
    /\ InitRun

SpecOne == InitOne /\ [][Next]_vars

(***************************************************************************)
(* The prune pass on its own, over every small tree                        *)
(***************************************************************************)

PruneDepth == 3

PruneFiles == 2

\* ".git" and "d.mp3" as directory names
PruneDirNames == { << 46, 103, 105, 116 >>, << 100, 46, 109, 112, 51 >> }

\* "s.mp3", "t.FLAC" and "c.jpg" as file names
PruneFileNames == { << 115, 46, 109, 112, 51 >>, << 116, 46, 70, 76, 65, 67 >>, << 99, 46, 106, 112, 103 >> }

\* The directories a tree is drawn from: a chain of d.mp3 of bounded depth,
\* with a .git in each of its directories.
PruneDirs ==
    { d \in UNION { [1..n -> PruneDirNames] : n \in 0..PruneDepth } :
        \A i \in 1..(Len(d) - 1) : d[i] \notin IGNORE_DIRS }

PruneSlots == { Append(d, f) : d \in PruneDirs, f \in PruneFileNames }

InitPrune ==
    /\ \E pick \in [1..PruneFiles -> PruneSlots \cup {<< >>}] :
       \E extra \in PruneDirs :
         LET fs == { pick[i] : i \in 1..PruneFiles } \ {<< >>} IN
         /\ dirs = UNION { Prefixes(Parent(p)) : p \in fs } \cup Prefixes(extra)
         /\ files = [p \in fs |-> 0]
    /\ meta = << >>
    /\ pc = "prune"
    /\ scanned = << >> /\ idx = 1 /\ moves = << >> /\ skipped = 0
    /\ response = Null /\ k = 1 /\ removed = NoNumber /\ run = "first"
    /\ log = << >>
    /\ dirs0 = dirs /\ files0 = files
    /\ textIdle

NextPrune == Prune

SpecPrune == InitPrune /\ [][NextPrune]_vars

(***************************************************************************)
(* The text specification: sanitize applied, then applied to its result.   *)
(***************************************************************************)

MaxPieces == 3

\* The fragments the inputs are made of: a, space, '.', '/', backslash, '*',
\* the escapes (backslash, marker letter, four hex digits) of '.', space,
\* backslash and '*', and the escape tails U0041 and u0041 that follow a
\* decoded backslash.
Pieces ==
    { << 97 >>, << 32 >>, << 46 >>, << 47 >>, << 92 >>, << 42 >>,
      << 92, 85, 48, 48, 50, 101 >>,
      << 92, 117, 48, 48, 50, 48 >>,
      << 92, 85, 48, 48, 53, 99 >>,
      << 92, 117, 48, 48, 50, 97 >>,
      << 85, 48, 48, 52, 49 >>,
      << 117, 48, 48, 52, 49 >> }

\* The other characters of the claim's alphabet, one input each.
SingleInputs ==
    { << 65 >>, << 9 >>, << 45 >>, << 58 >>, << 124 >>, << 63 >>, << 34 >>,
      << 60 >>, << 62 >>, << 92, 85, 48, 48, 102, 56 >> }

SanInputs ==
    SingleInputs \cup
    { Flatten(ps) : ps \in UNION { [1..n -> Pieces] : n \in 0..MaxPieces } }

libIdle ==
    /\ dirs = {<< >>} /\ files = << >> /\ meta = << >> /\ pc = "text"
    /\ scanned = << >> /\ idx = 1 /\ moves = << >> /\ skipped = 0
    /\ response = Null /\ k = 1 /\ removed = NoNumber /\ run = "first"
    /\ dirs0 = {<< >>} /\ files0 = << >> /\ log = << >>

InitSan ==
    /\ name \in SanInputs
    /\ outs = << >>
    /\ libIdle

\* name = sanitize(name), called on the previous call's result.
SanitizeCall ==
    /\ pc = "text"
    /\ Len(outs) < 2
    /\ name' = sanitize(name)
    /\ outs' = Append(outs, sanitize(name))
    /\ UNCHANGED libVars

NextSan == SanitizeCall

SpecSan == InitSan /\ [][NextSan]_vars

(***************************************************************************)
(* The properties                                                          *)
(***************************************************************************)

AudioPaths(F) == { p \in DOMAIN F : IsMusic(p) }

\* The plan is the one the planning loop of this run is building or has just
\* built: nothing has been moved since the scan.
PlanFresh == pc \in {"plan", "confirm"}

Moved(i) == log[i].op = "move"

Pruned(i) == log[i].op = "prune"

PrunedThisRun == \E i \in DOMAIN log : Pruned(i) /\ log[i].run = run

\* The metadata the extractor returns for the file at path p.
MetaAt(p, F) == get_metadata(meta[F[p]])

\* C1: every planned move has source # destination and a destination that
\* does not exist, at plan time and still when it is applied: no applied move
\* lands on an existing file, and the number of audio files after the apply
\* loop is the number before it.
C1_NoMoveOverwrites ==
    /\ PlanFresh =>
         \A j \in DOMAIN moves :
            /\ moves[j].src # moves[j].dst
            /\ ~Exists(moves[j].dst, dirs, files)
    /\ \A i \in DOMAIN log : Moved(i) => ~log[i].onto
    /\ (run = "first" /\ pc \in {"prune", "done"}) =>
         Cardinality(AudioPaths(files)) = Cardinality(AudioPaths(files0))

\* C2: no file move and no directory deletion is executed unless the operator
\* has answered yes, on every path through main(), the empty plan included.
C2_MutationsNeedConfirmation ==
    \A i \in DOMAIN log :
        (Moved(i) \/ (Pruned(i) /\ log[i].removed > 0)) => log[i].answer = Yes

\* C3 as stated: every run that has ended (empty plan, confirmed, declined)
\* has executed the prune pass.
C3_EveryRunPrunes ==
    pc \in {"done", "cancelled"} => PrunedThisRun

\* C3 as amended: a run that ends with the report has executed the prune pass
\* (its plan was empty, or the operator confirmed and every move was applied);
\* a run the operator declines ends without it, and the prune pass never runs
\* after a plan that was neither empty nor confirmed.
C3_PrunesUnlessDeclined ==
    /\ pc = "done" =>
         /\ PrunedThisRun
         /\ removed # NoNumber
         /\ moves = << >> \/ (response = Yes /\ k > Len(moves))
    /\ pc = "cancelled" =>
         /\ ~PrunedThisRun
         /\ moves # << >>
         /\ response # Yes
    /\ PrunedThisRun => (moves = << >> \/ response = Yes)

C3_Witness ==
    /\ pc = "done"
    /\ response = Yes
    /\ Len(moves) > 0
    /\ \E i \in DOMAIN log : Pruned(i) /\ log[i].run = run /\ log[i].removed > 0

\* The audio files found by the first scan whose metadata lacks artist, album
\* or title (whatever the track is).
Lacking(p, F) ==
    LET m == MetaAt(p, F) IN m.artist = Null \/ m.album = Null \/ m.title = Null

LackingAtStart == { p \in Found(dirs0, files0) : Lacking(p, files0) }

\* C4: a scanned file whose metadata lacks artist, album or title is never the
\* source of a planned move, is counted once by the skip counter, and stays at
\* its path with its content through apply and prune.
C4_CompletenessGate ==
    /\ \A p \in LackingAtStart :
         /\ p \in DOMAIN files
         /\ files[p] = files0[p]
         /\ \A j \in DOMAIN moves : moves[j].src # p
         /\ \A i \in DOMAIN log : Moved(i) => log[i].src # p /\ log[i].dst # p
    /\ (run = "first" /\ pc # "scan") =>
         skipped = Cardinality({ j \in 1..(idx - 1) : Lacking(scanned[j], files0) })

C4_Witness ==
    /\ pc = "done"
    /\ run = "first"
    /\ response = Yes
    /\ skipped = 1
    /\ LackingAtStart # {}
    /\ \E i \in DOMAIN log : Moved(i)
    /\ removed > 0

\* C5: after remove_empty_folders(root) without a deletion failure, a directory
\* other than the root is gone with all its contents iff no audio file was
\* anywhere below it; the root and every audio file survive; the count returned
\* is the number of directories that had no audio file below them.
NoAudioBelow(d, F) == ~\E p \in AudioPaths(F) : Below(d, p)

C5_PruneCorrect ==
    \A i \in DOMAIN log :
        (Pruned(i) /\ i = Len(log) /\ pc = "done" /\ log[i].fail = {}) =>
            LET D == log[i].before.dirs
                F == log[i].before.files
                gone == { d \in D \ {MUSIC_ROOT} : NoAudioBelow(d, F) }
            IN  /\ dirs = D \ gone
                /\ MUSIC_ROOT \in dirs
                /\ DOMAIN files = { p \in DOMAIN F : \A d \in gone : ~Below(d, p) }
                /\ \A p \in AudioPaths(F) : p \in DOMAIN files /\ files[p] = F[p]
                /\ removed = Cardinality(gone)

C5_Witness ==
    /\ pc = "done"
    /\ Len(log) = 1
    /\ log[1].fail = {}
    /\ removed >= 2
    /\ AudioPaths(files) # {}
    /\ \E d \in dirs : Len(d) = 2
    /\ DOMAIN files # DOMAIN files0

\* What lies in an ignored directory.
IgnoredDirs(D) == { d \in D : ~Walked(d) }

IgnoredFiles(F) == { << p, F[p] >> : p \in { q \in DOMAIN F : ~Walked(Parent(q)) } }

\* C6: the prune pass skips the directories named in IGNORE_DIRS as the scan
\* does: no run changes what an ignored directory below the root contains.
C6_IgnoredDirsUntouched ==
    /\ IgnoredDirs(dirs) = IgnoredDirs(dirs0)
    /\ IgnoredFiles(files) = IgnoredFiles(files0)

\* The first run was confirmed and applied every move of its plan.
FirstRunApplied ==
    \E i \in DOMAIN log : Pruned(i) /\ log[i].run = "first" /\ log[i].answer = Yes

\* C7: after a first run that was confirmed and whose moves all succeeded, a
\* second run over the resulting tree plans no move.
C7_SecondRunPlansNothing ==
    (run = "second" /\ FirstRunApplied) => moves = << >>

\* C8: sanitize is idempotent, and one pass leaves no leading or trailing white
\* space or '.', none of the nine unsafe characters and no escape sequence.
HasEscape(s) ==
    \E i \in 1..Len(s) :
        /\ i + 5 <= Len(s)
        /\ s[i] = 92
        /\ s[i + 1] \in {85, 117}
        /\ \A j \in (i + 2)..(i + 5) : IsHex(s[j])

CleanSegment(s) ==
    /\ Len(s) > 0 => /\ ~IsSpace(s[1]) /\ ~IsSpace(s[Len(s)])
                     /\ s[1] # 46 /\ s[Len(s)] # 46
    /\ \A i \in 1..Len(s) : \A j \in 1..Len(UnsafeChars) : s[i] # UnsafeChars[j]
    /\ ~HasEscape(s)

C8_SanitizeIdempotent ==
    /\ Len(outs) >= 1 => CleanSegment(outs[1])
    /\ Len(outs) >= 2 => outs[2] = outs[1]


\* C9: a file whose sanitized primary artist, album or title is empty yields
\* no move: every planned destination has three non-empty segments below the
\* root, the third with a non-empty title part.
C9_EmptySegmentIsIncomplete ==
    PlanFresh =>
        \A j \in DOMAIN moves :
            LET m == MetaAt(moves[j].src, files) IN
            /\ sanitize(get_main_artist(m.artist)) # << >>
            /\ sanitize(m.album) # << >>
            /\ sanitize(m.title) # << >>
            /\ Len(moves[j].dst) = 3
            /\ \A n \in 1..3 : moves[j].dst[n] # << >>

\* The file name made of the number n on two digits at least, " - ", the
\* sanitized title and the source's extension.
Numbered(n, m, src) ==
    (IF n < 10 THEN << 48, 48 + n >> ELSE Decimal(n))
        \o << 32, 45, 32 >> \o sanitize(m.title) \o Suffix(BaseName(src))

Unnumbered(m, src) == sanitize(m.title) \o Suffix(BaseName(src))

\* C10 as stated: whenever a track number was parsed, whatever its value, the
\* file name is the number on two digits, " - ", title, extension; it is
\* title and extension only when no track number was parsed.
C10_TrackNumberAlwaysPrefixed ==
    PlanFresh =>
        \A j \in DOMAIN moves :
            LET m == MetaAt(moves[j].src, files)
                nm == BaseName(moves[j].dst)
            IN  IF m.track # NoNumber
                THEN nm = Numbered(m.track, m, moves[j].src)
                ELSE nm = Unnumbered(m, moves[j].src)

\* C10 as amended: the number is prefixed when it is 1 or more; a parsed 0 is
\* treated as no track number.
C10_PositiveTrackPrefixed ==
    PlanFresh =>
        \A j \in DOMAIN moves :
            LET m == MetaAt(moves[j].src, files)
                nm == BaseName(moves[j].dst)
            IN  IF m.track # NoNumber /\ m.track >= 1
                THEN nm = Numbered(m.track, m, moves[j].src)
                ELSE nm = Unnumbered(m, moves[j].src)

C10_Witness ==
    /\ pc = "confirm"
    /\ \E j \in DOMAIN moves :
         /\ MetaAt(moves[j].src, files).track = 7
         /\ BaseName(moves[j].dst) = << 48, 55, 32, 45, 32, 84, 46, 109, 112, 51 >>

====
